---- MODULE Spec2Model ----
(***************************************************************************)
(* Model of src/wrappers/jit.rs: the IValue <-> native CIValue bridge      *)
(* (IValue::to_c, IValue::of_c) and the CModule handle (load, forward_ts,  *)
(* forward_is, Drop).  The native engine behind the ati_* / atm_* calls is *)
(* a store of handles; every native call may report failure, which the     *)
(* unsafe_torch_err! wrapper turns into an early Err return.               *)
(***************************************************************************)
EXTENDS Integers, Sequences, FiniteSets, TLC

VARIABLES
    ivalues,    \* native CIValue store: handle h is index h; [val, live, frees]
    misuse,     \* native calls made on a handle that was not live: {<<call, h>>}
    owned,      \* native value handles the caller of to_c holds and has not passed on
    modules,    \* the CModule objects created so far: [c_module, state]
    nmodules,   \* native module resources: [live, frees]
    tensors,    \* native tensor handles the caller owns: [live, frees]
    threads,    \* per thread: the forward call it is inside, if any
    last        \* record of the operation that completed last

vars == <<ivalues, misuse, owned, modules, nmodules, tensors, threads, last>>

----------------------------------------------------------------------------
(* Bounds *)

MaxHandles == 5      \* slots of the native value store
MaxFaults == 1       \* native calls that report failure within one operation
MaxTupleLen == 2     \* elements of a tuple drawn as an input
MaxStrLen == 2       \* bytes of a string drawn as an input
MaxOwned == 1        \* handles a caller of to_c holds at one time
MaxModules == 2      \* CModule::load calls in one run
NThreads == 2        \* threads sharing the modules

----------------------------------------------------------------------------
(* IValue (lines 10-19): a closed sum; every variant is a record of the    *)
(* same shape so that two values always compare.                           *)

Blank == [k |-> "None", n |-> 0, b |-> FALSE, s |-> <<>>, es |-> <<>>]
INone == Blank
ITensor(t) == [Blank EXCEPT !.k = "Tensor", !.n = t]
IDouble(d) == [Blank EXCEPT !.k = "Double", !.n = d]
IInt(i) == [Blank EXCEPT !.k = "Int", !.n = i]
IBool(b) == [Blank EXCEPT !.k = "Bool", !.b = b]
ITuple(es) == [Blank EXCEPT !.k = "Tuple", !.es = es]
IString(s) == [Blank EXCEPT !.k = "String", !.s = s]

(* What a native CIValue holds: the tag ati_tag reports and the payload.   *)
NBlank == [tag |-> 0, n |-> 0, s |-> <<>>, es |-> <<>>]
NVal(tag, n) == [NBlank EXCEPT !.tag = tag, !.n = n]
NStr(s) == [NBlank EXCEPT !.tag = 9, !.s = s]
NTup(es) == [NBlank EXCEPT !.tag = 5, !.es = es]

----------------------------------------------------------------------------
(* The native boundary.  A world w is the native store plus the state of   *)
(* the operation in progress: the pending native error, the number of      *)
(* native calls made so far, the calls chosen to fail, and the call log.   *)

World(iv, bad, faults) ==
    [iv |-> iv, bad |-> bad, err |-> FALSE, k |-> 0, faults |-> faults, log |-> <<>>]

Fails(w) == (w.k + 1) \in w.faults

Live(w, h) == h \in 1..Len(w.iv) /\ w.iv[h].live

(* One native call f on handle h (or on the handles hs): counted, logged    *)
(* with its outcome, and noted when a handle it is given is not live; a    *)
(* call that fails leaves the native error set.                            *)
Called(w, f, h, hs) ==
    [w EXCEPT !.k = @ + 1,
              !.err = @ \/ Fails(w),
              !.log = Append(@, [f |-> f, h |-> h, hs |-> hs, failed |-> Fails(w)]),
              !.bad = @ \cup {<<"value", f, x>> :
                                x \in {y \in ({h} \cup {hs[i] : i \in 1..Len(hs)}) :
                                          y # 0 /\ ~Live(w, y)}}]

(* A value constructor: a fresh handle holding val, or a reported failure. *)
NewValue(w, f, hs, val) ==
    IF Fails(w)
    THEN [w |-> Called(w, f, 0, hs), r |-> 0]
    ELSE [w |-> [Called(w, f, 0, hs) EXCEPT
                    !.iv = Append(@, [val |-> val, live |-> TRUE, frees |-> 0])],
          r |-> Len(w.iv) + 1]

(* A value inspector: reads handle h. *)
Inspect(w, f, h, r, dflt) ==
    IF Fails(w)
    THEN [w |-> Called(w, f, h, <<>>), r |-> dflt]
    ELSE [w |-> Called(w, f, h, <<>>), r |-> r]

ValOf(w, h) == IF h \in 1..Len(w.iv) THEN w.iv[h].val ELSE NBlank

(* A C string ends at its first NUL byte. *)
RECURSIVE UpToNul(_)
UpToNul(bytes) ==
    IF bytes = <<>> \/ Head(bytes) = 0 THEN <<>>
    ELSE <<Head(bytes)>> \o UpToNul(Tail(bytes))

ati_none(w) == NewValue(w, "ati_none", <<>>, NBlank)
ati_tensor(w, t) == NewValue(w, "ati_tensor", <<>>, NVal(1, t))
ati_double(w, d) == NewValue(w, "ati_double", <<>>, NVal(2, d))
ati_int(w, i) == NewValue(w, "ati_int", <<>>, NVal(3, i))
ati_bool(w, b) == NewValue(w, "ati_bool", <<>>, NVal(4, b))
ati_string(w, ptr) == NewValue(w, "ati_string", <<>>, NStr(UpToNul(ptr)))
ati_tuple(w, hs) ==
    NewValue(w, "ati_tuple", hs, NTup([i \in 1..Len(hs) |-> ValOf(w, hs[i])]))

ati_tag(w, h) == Inspect(w, "ati_tag", h, ValOf(w, h).tag, -1)
ati_to_tensor(w, h) == Inspect(w, "ati_to_tensor", h, ValOf(w, h).n, 0)
ati_to_double(w, h) == Inspect(w, "ati_to_double", h, ValOf(w, h).n, 0)
ati_to_int(w, h) == Inspect(w, "ati_to_int", h, ValOf(w, h).n, 0)
ati_to_bool(w, h) == Inspect(w, "ati_to_bool", h, ValOf(w, h).n, -1)
ati_to_string(w, h) == Inspect(w, "ati_to_string", h, ValOf(w, h).s, <<>>)
ati_tuple_length(w, h) == Inspect(w, "ati_tuple_length", h, Len(ValOf(w, h).es), 0)

(* Fills the caller's buffer with one fresh handle per element. *)
ati_to_tuple(w, h, len) ==
    IF Fails(w)
    THEN [w |-> Called(w, "ati_to_tuple", h, <<>>), r |-> [i \in 1..len |-> 0]]
    ELSE [w |-> [Called(w, "ati_to_tuple", h, <<>>) EXCEPT
                    !.iv = @ \o [i \in 1..len |->
                                   [val |-> ValOf(w, h).es[i], live |-> TRUE, frees |-> 0]]],
          r |-> [i \in 1..len |-> Len(w.iv) + i]]

(* The destructor: every call is counted; a call that reports failure has  *)
(* released nothing.  What a released handle held is gone.                 *)
ati_free(w, h) ==
    LET c == [Called(w, "ati_free", h, <<>>) EXCEPT
                 !.iv = [i \in 1..Len(w.iv) |->
                           IF i = h THEN [w.iv[i] EXCEPT !.frees = @ + 1] ELSE w.iv[i]]]
    IN IF Fails(w) THEN [w |-> c, r |-> 0]
       ELSE [w |-> [c EXCEPT !.iv = [i \in 1..Len(c.iv) |->
                       IF i = h THEN [c.iv[i] EXCEPT !.live = FALSE, !.val = NBlank]
                       ELSE c.iv[i]]],
             r |-> 0]

----------------------------------------------------------------------------
(* Results: Fallible<T> as [w, ok, r, e]; w is the world afterwards.       *)

Ok(w, r) == [w |-> w, ok |-> TRUE, r |-> r, e |-> ""]
Err(w, e) == [w |-> w, ok |-> FALSE, r |-> 0, e |-> e]

(* F applied to the value of x, which is computed once. *)
Let(x, F(_)) == CHOOSE r \in {F(v) : v \in {x}} : TRUE

(* unsafe_torch_err!: evaluate the native expression, then read and clear  *)
(* the native error; a pending error is returned as Err.                   *)
unsafe_torch_err(x) ==
    IF x.w.err THEN Err([x.w EXCEPT !.err = FALSE], "torch") ELSE Ok(x.w, x.r)

----------------------------------------------------------------------------
(* IValue::to_c (lines 22-46)                                              *)

RECURSIVE to_c(_, _), collect_to_c(_, _), free_all(_, _), of_c(_, _), collect_of_c(_, _)

(* BoolToC with the two encodings swapped *)
BoolToC_swapped(b) == IF b THEN 0 ELSE 1

(* line 29: the native encoding of a bool *)
BoolToC(b) == IF b THEN 1 ELSE 0

(* line 40: CString::new refuses text with an interior NUL byte, and       *)
(* otherwise appends the terminator.                                       *)
CStringNew(s) ==
    IF \E i \in 1..Len(s) : s[i] = 0
    THEN [ok |-> FALSE, bytes |-> <<>>]
    ELSE [ok |-> TRUE, bytes |-> s \o <<0>>]

(* lines 31 and 124-127: iter().map(to_c).collect::<Fallible<Vec<_>>>()    *)
(* converts in order and stops at the first Err; the Vec of raw handles    *)
(* built so far is dropped, which frees no native value.                   *)
collect_to_c(w, vs) ==
    IF vs = <<>> THEN Ok(w, <<>>)
    ELSE Let(to_c(w, Head(vs)), LAMBDA x :
           IF ~x.ok THEN Err(x.w, x.e)
           ELSE Let(collect_to_c(x.w, Tail(vs)), LAMBDA rest :
                  IF ~rest.ok THEN rest ELSE Ok(rest.w, <<x.r>> \o rest.r)))

(* free_all releasing every handle twice *)
RECURSIVE free_all_twice(_, _)
free_all_twice(w, hs) ==
    IF hs = <<>> THEN w
    ELSE Let(ati_free(w, Head(hs)), LAMBDA x :
           Let(ati_free(x.w, Head(hs)), LAMBDA y : free_all_twice(y.w, Tail(hs))))

(* lines 33-35 and 130-132: for x in v { ati_free(x) }; no error is read   *)
(* between two calls.                                                      *)
free_all(w, hs) ==
    IF hs = <<>> THEN w
    ELSE Let(ati_free(w, Head(hs)), LAMBDA x : free_all(x.w, Tail(hs)))

(* the Tuple arm with the error of ati_tuple read before the frees *)
to_c_tuple_early(w, es) ==
    Let(collect_to_c(w, es), LAMBDA v :
      IF ~v.ok THEN Err(v.w, v.e)
      ELSE Let(unsafe_torch_err(ati_tuple(v.w, v.r)), LAMBDA tuple :
             IF ~tuple.ok THEN Err(tuple.w, tuple.e)
             ELSE Let(free_all(tuple.w, v.r), LAMBDA freed :
                    unsafe_torch_err([w |-> freed, r |-> tuple.r]))))

(* lines 30-38: the Tuple arm.  The `?` of line 31 leaves to_c at once;    *)
(* ati_tuple and the frees run inside one unsafe_torch_err! block, whose   *)
(* error is read after the block.                                          *)
to_c_tuple(w, es) ==
    Let(collect_to_c(w, es), LAMBDA v :
      IF ~v.ok THEN Err(v.w, v.e)
      ELSE Let(ati_tuple(v.w, v.r), LAMBDA tuple :
             Let(free_all(tuple.w, v.r), LAMBDA freed :
               unsafe_torch_err([w |-> freed, r |-> tuple.r]))))

(* to_c_string without the `?` of line 40: the bytes go to ati_string as   *)
(* they are                                                                *)
to_c_string_unchecked(w, s) ==
    Let(ati_string(w, s \o <<0>>), LAMBDA x : unsafe_torch_err(x))

(* lines 39-42: the String arm *)
to_c_string(w, s) ==
    Let(CStringNew(s), LAMBDA c_str :
      IF ~c_str.ok THEN Err(w, "nul")
      ELSE Let(ati_string(w, c_str.bytes), LAMBDA x : unsafe_torch_err(x)))

to_c(w, v) ==
    CASE v.k = "Tensor" -> Let(ati_tensor(w, v.n), LAMBDA x : unsafe_torch_err(x))
      [] v.k = "Int" -> Let(ati_int(w, v.n), LAMBDA x : unsafe_torch_err(x))
      [] v.k = "None" -> Let(ati_none(w), LAMBDA x : unsafe_torch_err(x))
      [] v.k = "Double" -> Let(ati_double(w, v.n), LAMBDA x : unsafe_torch_err(x))
      [] v.k = "Bool" -> Let(ati_bool(w, BoolToC(v.b)), LAMBDA x : unsafe_torch_err(x))
      [] v.k = "Tuple" -> to_c_tuple(w, v.es)
      [] v.k = "String" -> to_c_string(w, v.s)

----------------------------------------------------------------------------
(* IValue::of_c (lines 48-84)                                              *)

(* utils::ptr_to_string: the text of a C string, None when the bytes are   *)
(* not valid UTF-8 (here: a byte above 127).                               *)
ptr_to_string(bytes) ==
    IF \E i \in 1..Len(bytes) : bytes[i] > 127
    THEN [some |-> FALSE, s |-> <<>>]
    ELSE [some |-> TRUE, s |-> bytes]

(* lines 69-72: c_ivalues.iter().map(of_c).collect() stops at the first    *)
(* Err: the handles after it are never passed to of_c.                     *)
collect_of_c(w, hs) ==
    IF hs = <<>> THEN Ok(w, <<>>)
    ELSE Let(of_c(w, Head(hs)), LAMBDA x :
           IF ~x.ok THEN Err(x.w, x.e)
           ELSE Let(collect_of_c(x.w, Tail(hs)), LAMBDA rest :
                  IF ~rest.ok THEN rest ELSE Ok(rest.w, <<x.r>> \o rest.r)))

(* tag 4 without the ensure! of line 61 *)
of_c_bool_coercing(w, c_ivalue) ==
    Let(unsafe_torch_err(ati_to_bool(w, c_ivalue)), LAMBDA b :
      IF ~b.ok THEN Err(b.w, b.e) ELSE Ok(b.w, IBool(b.r # 0)))

(* lines 59-63: tag 4 *)
of_c_bool(w, c_ivalue) ==
    Let(unsafe_torch_err(ati_to_bool(w, c_ivalue)), LAMBDA b :
      IF ~b.ok THEN Err(b.w, b.e)
      ELSE IF ~(b.r >= 0) THEN Err(b.w, "unexpected bool value")
      ELSE Ok(b.w, IBool(b.r # 0)))

(* lines 64-74: tag 5 *)
of_c_tuple(w, c_ivalue) ==
    Let(unsafe_torch_err(ati_tuple_length(w, c_ivalue)), LAMBDA len :
      IF ~len.ok THEN Err(len.w, len.e)
      ELSE Let(unsafe_torch_err(ati_to_tuple(len.w, c_ivalue, len.r)), LAMBDA c_ivalues :
             IF ~c_ivalues.ok THEN Err(c_ivalues.w, c_ivalues.e)
             ELSE Let(collect_of_c(c_ivalues.w, c_ivalues.r), LAMBDA vec :
                    IF ~vec.ok THEN Err(vec.w, vec.e)
                    ELSE Ok(vec.w, ITuple(vec.r)))))

(* tag 9 with `?` in the place of the unwrap() of line 77 *)
of_c_string_checked(w, c_ivalue) ==
    Let(unsafe_torch_err(ati_to_string(w, c_ivalue)), LAMBDA ptr :
      IF ~ptr.ok THEN Err(ptr.w, ptr.e)
      ELSE Let(ptr_to_string(ptr.r), LAMBDA string :
             IF ~string.some THEN Err(ptr.w, "utf8")
             ELSE Ok(ptr.w, IString(string.s))))

(* lines 75-79: tag 9; unwrap() panics on None *)
of_c_string(w, c_ivalue) ==
    Let(unsafe_torch_err(ati_to_string(w, c_ivalue)), LAMBDA ptr :
      IF ~ptr.ok THEN Err(ptr.w, ptr.e)
      ELSE Let(ptr_to_string(ptr.r), LAMBDA string :
             IF ~string.some THEN Err(ptr.w, "panic")
             ELSE Ok(ptr.w, IString(string.s))))

(* lines 53-56: tag 1 *)
of_c_tensor(w, c_ivalue) ==
    Let(unsafe_torch_err(ati_to_tensor(w, c_ivalue)), LAMBDA c_tensor :
      IF ~c_tensor.ok THEN Err(c_tensor.w, c_tensor.e)
      ELSE Ok(c_tensor.w, ITensor(c_tensor.r)))

(* line 57: tag 2 *)
of_c_double(w, c_ivalue) ==
    Let(unsafe_torch_err(ati_to_double(w, c_ivalue)), LAMBDA f :
      IF ~f.ok THEN Err(f.w, f.e) ELSE Ok(f.w, IDouble(f.r)))

(* line 58: tag 3 *)
of_c_int(w, c_ivalue) ==
    Let(unsafe_torch_err(ati_to_int(w, c_ivalue)), LAMBDA i :
      IF ~i.ok THEN Err(i.w, i.e) ELSE Ok(i.w, IInt(i.r)))

(* the match with a default arm that builds None instead of line 80 *)
of_c_match_lenient(w, c_ivalue, tag) ==
    CASE tag = 1 -> of_c_tensor(w, c_ivalue)
      [] tag = 2 -> of_c_double(w, c_ivalue)
      [] tag = 3 -> of_c_int(w, c_ivalue)
      [] tag = 4 -> of_c_bool(w, c_ivalue)
      [] tag = 5 -> of_c_tuple(w, c_ivalue)
      [] tag = 9 -> of_c_string(w, c_ivalue)
      [] OTHER -> Ok(w, INone)

(* lines 51-81: the match on the tag *)
of_c_match(w, c_ivalue, tag) ==
    CASE tag = 0 -> Ok(w, INone)
      [] tag = 1 -> of_c_tensor(w, c_ivalue)
      [] tag = 2 -> of_c_double(w, c_ivalue)
      [] tag = 3 -> of_c_int(w, c_ivalue)
      [] tag = 4 -> of_c_bool(w, c_ivalue)
      [] tag = 5 -> of_c_tuple(w, c_ivalue)
      [] tag = 9 -> of_c_string(w, c_ivalue)
      [] OTHER -> Err(w, "unhandled tag")

(* lines 49-84: every `?` above leaves of_c before line 82 *)
of_c(w, c_ivalue) ==
    Let(unsafe_torch_err(ati_tag(w, c_ivalue)), LAMBDA tag :
      IF ~tag.ok THEN Err(tag.w, tag.e)
      ELSE Let(of_c_match(tag.w, c_ivalue, tag.r), LAMBDA v :
             IF ~v.ok THEN Err(v.w, v.e)
             ELSE Let(unsafe_torch_err(ati_free(v.w, c_ivalue)), LAMBDA freed :
                    IF ~freed.ok THEN Err(freed.w, freed.e)
                    ELSE Ok(freed.w, v.r))))

----------------------------------------------------------------------------
(* Inputs *)

NUL == 0
Bytes == {NUL, 65}
Strs(n) == UNION {[1..k -> Bytes] : k \in 0..n}
TuplesOf(S, n) == {ITuple(es) : es \in UNION {[1..k -> S] : k \in 0..n}}

Pair(x, y) == ITuple(<<x, y>>)
Scalars == {INone, IInt(42), IDouble(3), IBool(TRUE), IBool(FALSE)}
Strings == {IString(s) : s \in Strs(MaxStrLen)}
Atoms == {IInt(42), IString(<<NUL>>)}
Values ==
    Scalars \cup Strings \cup TuplesOf(Atoms, MaxTupleLen)
            \cup {Pair(IInt(42), x) : x \in TuplesOf(Atoms, MaxTupleLen)}
            \cup {Pair(IInt(42), IString(<<65>>))}
RTValues ==
    Scalars \cup Strings
            \cup TuplesOf((Scalars \ {IDouble(3)}) \cup {IString(<<65>>)}, MaxTupleLen)
            \cup {Pair(IInt(42), t) : t \in TuplesOf(Atoms \cup {IBool(FALSE)}, MaxTupleLen)}
            \cup {ITuple(<<t, IBool(TRUE)>>) : t \in TuplesOf(Atoms, MaxTupleLen)}
            \cup {ITuple(<<ITuple(<<Pair(IInt(42), IDouble(3))>>)>>),
                  Pair(IInt(42), Pair(IString(<<65>>), IBool(FALSE)))}

ArgLists ==
    {<<>>, <<IInt(42)>>, <<IInt(42), IString(<<65>>)>>, <<IInt(42), IString(<<NUL>>)>>,
     <<Pair(IInt(42), IString(<<65>>))>>}

(* What the engine may hand back from a forward call. *)
NativeResults ==
    {NVal(3, 42), NVal(7, 0), NVal(4, -1), NVal(4, 2), NStr(<<255>>),
     NTup(<<NVal(3, 42), NVal(7, 0)>>), NTup(<<NVal(7, 0), NVal(3, 42)>>)}

(* What a native handle given to of_c may hold: every tag from -1 to 10,   *)
(* bool encodings around 0 and 1, text that is and is not valid, tuples.   *)
NativeTags == -1..10
NativeBools == {NVal(4, b) : b \in {-1, 0, 1, 2}}
NativeLeaves == {NVal(3, 42), NVal(7, 0)}
NativeValues ==
    {NVal(tag, 7) : tag \in NativeTags \ {5, 9}} \cup NativeBools
        \cup {NStr(<<>>), NStr(<<65>>), NStr(<<255>>), NStr(<<65, 255>>)}
        \cup {NTup(es) : es \in UNION {[1..k -> NativeLeaves] : k \in 0..MaxTupleLen}}
        \cup {NTup(<<NTup(<<NVal(3, 42), NVal(4, 0)>>)>>), NTup(<<NVal(3, 42), NStr(<<255>>)>>)}

(* Which native calls of an operation report failure: at most MaxFaults of *)
(* its first n calls.                                                      *)
RECURSIVE FaultsOf(_, _)
FaultsOf(n, k) ==
    IF k = 0 THEN {{}}
    ELSE LET P == FaultsOf(n, k - 1) IN P \cup {F \cup {i} : F \in P, i \in 1..n}
FaultTable == [n \in 0..(5 * (MaxHandles + 1)) |-> FaultsOf(n, MaxFaults)]
Faults(n) == IF n \in DOMAIN FaultTable THEN FaultTable[n] ELSE FaultsOf(n, MaxFaults)

Paths == {"model.pt", "missing.pt", "garbage.pt", "nul"}
Threads == 1..NThreads
Tensors == {1, 2}

RECURSIVE Nodes(_), NNodes(_), SumNodes(_)
(* native handles to_c allocates for v: one per node *)
Nodes(v) ==
    IF v.k = "Tuple" THEN 1 + SumNodes(v.es) ELSE 1
SumNodes(vs) == IF vs = <<>> THEN 0 ELSE Nodes(Head(vs)) + SumNodes(Tail(vs))
(* native handles of_c allocates for a native value: one per proper descendant *)
NNodes(n) ==
    IF n.es = <<>> THEN 0
    ELSE Len(n.es) + NNodes(Head(n.es)) + NNodes([n EXCEPT !.es = Tail(@)])

LiveSet(iv) == {h \in 1..Len(iv) : iv[h].live}

(* native calls of the operation that reported failure *)
Failures(w) == Cardinality({i \in 1..Len(w.log) : w.log[i].failed})

(* A handle that no owner names any more, released or leaked, can be       *)
(* passed to no later call: when the next operation starts the store       *)
(* forgets what it held, and keeps its slot only below a handle that is    *)
(* still named, so that a named handle is never handed out again.          *)
Gone == [val |-> NBlank, live |-> FALSE, frees |-> 0]
Top(keep) == IF keep = {} THEN 0 ELSE CHOOSE h \in keep : \A g \in keep : g <= h
Settle(iv, keep) == [h \in 1..Top(keep) |-> IF h \in keep THEN iv[h] ELSE Gone]

----------------------------------------------------------------------------
(* State *)

Idle ==
    [pc |-> "idle", m |-> 0, ptr |-> 0, inputs |-> <<>>, hs |-> <<>>, ts |-> <<>>,
     log |-> <<>>]

NoOp ==
    [op |-> "", t |-> 0, m |-> 0, ok |-> FALSE, e |-> "", argv |-> Blank, argh |-> 0,
     args |-> <<>>, path |-> "", hs |-> <<>>, h |-> 0, v |-> Blank, log |-> <<>>,
     nfail |-> 0, mods |-> 0, base |-> 0, top |-> 0, nv |-> NBlank, inputs |-> <<>>]

Init ==
    /\ ivalues = <<>>
    /\ misuse = {}
    /\ owned = {}
    /\ modules = <<>>
    /\ nmodules = <<>>
    /\ tensors = [t \in Tensors |-> [live |-> TRUE, frees |-> 0]]
    /\ threads = [t \in Threads |-> Idle]
    /\ last = NoOp

Named == owned \cup UNION {{threads[t].hs[i] : i \in 1..Len(threads[t].hs)} : t \in Threads}
Store == Settle(ivalues, Named)

(* A caller calls v.to_c() and keeps the handle it gets. *)
ToC(v, faults) ==
    /\ Cardinality(owned) < MaxOwned
    /\ Len(Store) + Nodes(v) <= MaxHandles
    /\ \E w \in {World(Store, misuse, faults)} : \E x \in {to_c(w, v)} :
          /\ ivalues' = x.w.iv
          /\ misuse' = x.w.bad
          /\ owned' = IF x.ok THEN owned \cup {x.r} ELSE owned
          /\ last' = [NoOp EXCEPT !.op = "to_c", !.ok = x.ok, !.e = x.e, !.argv = v,
                                  !.h = x.r, !.log = x.w.log, !.nfail = Failures(x.w),
                                  !.base = Len(Store), !.top = Len(x.w.iv)]
    /\ UNCHANGED <<modules, nmodules, tensors, threads>>

(* A caller passes a handle it holds to IValue::of_c, which takes it over. *)
OfC(c_ivalue, faults) ==
    /\ c_ivalue \in owned
    /\ Len(Store) + NNodes(ivalues[c_ivalue].val) <= MaxHandles
    /\ \E w \in {World(Store, misuse, faults)} : \E x \in {of_c(w, c_ivalue)} :
          /\ ivalues' = x.w.iv
          /\ misuse' = x.w.bad
          /\ owned' = owned \ {c_ivalue}
          /\ last' = [NoOp EXCEPT !.op = "of_c", !.ok = x.ok, !.e = x.e, !.argh = c_ivalue,
                                  !.v = IF x.ok THEN x.r ELSE Blank, !.log = x.w.log,
                                  !.nfail = Failures(x.w), !.nv = ivalues[c_ivalue].val,
                                  !.base = Len(Store), !.top = Len(x.w.iv)]
    /\ UNCHANGED <<modules, nmodules, tensors, threads>>

(* IValue::of_c on a handle the engine has just handed out, holding n, as  *)
(* at line 133 and at line 71.                                             *)
OfCNative(n, faults) ==
    /\ Len(Store) + 1 + NNodes(n) <= MaxHandles
    /\ \E c_ivalue \in {Len(Store) + 1},
          iv \in {Append(Store, [val |-> n, live |-> TRUE, frees |-> 0])} :
        \E w \in {World(iv, misuse, faults)} : \E x \in {of_c(w, c_ivalue)} :
          /\ ivalues' = x.w.iv
          /\ misuse' = x.w.bad
          /\ last' = [NoOp EXCEPT !.op = "of_c", !.ok = x.ok, !.e = x.e, !.argh = c_ivalue,
                                  !.v = IF x.ok THEN x.r ELSE Blank, !.log = x.w.log,
                                  !.nfail = Failures(x.w), !.nv = n,
                                  !.base = c_ivalue, !.top = Len(x.w.iv)]
    /\ UNCHANGED <<owned, modules, nmodules, tensors, threads>>

----------------------------------------------------------------------------
(* CModule (lines 87-135)                                                  *)

(* The engine loads only a file that exists and holds a model. *)
Loadable(path) == path = "model.pt"

(* utils::path_to_cstring: a path with an interior NUL is refused. *)
path_to_cstring(path) == [ok |-> path # "nul", bytes |-> path]

ModuleLive(nm, ptr) == ptr \in 1..Len(nm) /\ nm[ptr].live

(* atm_load: a fresh native module, or a reported failure and a null pointer *)
atm_load(nm, path, fail) ==
    IF fail \/ ~Loadable(path)
    THEN [nm |-> nm, err |-> TRUE, r |-> 0]
    ELSE [nm |-> Append(nm, [live |-> TRUE, frees |-> 0]), err |-> FALSE, r |-> Len(nm) + 1]

(* atm_free: every call is counted; a call that reports failure has        *)
(* released nothing.                                                       *)
atm_free(nm, ptr, fail) ==
    [nm |-> [i \in 1..Len(nm) |->
               IF i # ptr THEN nm[i]
               ELSE [live |-> nm[i].live /\ fail, frees |-> nm[i].frees + 1]],
     err |-> fail,
     bad |-> IF ModuleLive(nm, ptr) THEN {} ELSE {<<"module", "atm_free", ptr>>}]

(* load without the error check of line 110: the pointer atm_load returned *)
(* is wrapped whatever it is                                               *)
load_unchecked(nm, path, fail) ==
    LET c_module == atm_load(nm, path, fail)
    IN [nm |-> c_module.nm, ok |-> TRUE, e |-> "", r |-> c_module.r, called |-> TRUE]

(* lines 108-112: CModule::load; r is the CModule built, if any *)
load(nm, path, fail) ==
    LET p == path_to_cstring(path)
    IN IF ~p.ok THEN [nm |-> nm, ok |-> FALSE, e |-> "nul", r |-> 0, called |-> FALSE]
       ELSE LET c_module == atm_load(nm, p.bytes, fail)
            IN IF c_module.err
               THEN [nm |-> c_module.nm, ok |-> FALSE, e |-> "torch", r |-> 0, called |-> TRUE]
               ELSE [nm |-> c_module.nm, ok |-> TRUE, e |-> "", r |-> c_module.r,
                     called |-> TRUE]

(* drop calling atm_free twice *)
drop_twice(nm, c_module, fail) ==
    LET x == atm_free(nm, c_module, fail)
        y == atm_free(x.nm, c_module, fail)
    IN [nm |-> y.nm, bad |-> x.bad \cup y.bad, e |-> IF y.err THEN "panic" ELSE ""]

(* lines 100-104: Drop; unsafe_torch! panics when atm_free reports failure *)
drop(nm, c_module, fail) ==
    LET x == atm_free(nm, c_module, fail)
    IN [nm |-> x.nm, bad |-> x.bad, e |-> IF x.err THEN "panic" ELSE ""]

Load(path, fail) ==
    /\ Len(modules) < MaxModules
    /\ LET x == load(nmodules, path, fail)
       IN /\ nmodules' = x.nm
          /\ modules' = IF x.ok THEN Append(modules, [c_module |-> x.r, state |-> "Loaded"])
                        ELSE modules
          /\ last' = [NoOp EXCEPT !.op = "load", !.ok = x.ok, !.e = x.e, !.path = path,
                                  !.mods = Len(modules),
                                  !.nfail = IF x.called /\ atm_load(nmodules, path, fail).err
                                            THEN 1 ELSE 0,
                                  !.m = IF x.ok THEN Len(modules) + 1 ELSE 0,
                                  !.base = Len(nmodules), !.top = Len(x.nm)]
    /\ UNCHANGED <<ivalues, misuse, owned, tensors, threads>>

(* The owner lets go of module m.  A value is dropped once, and not while  *)
(* a &self borrow of it is alive, that is, while a forward call runs.      *)
Drop(m, fail) ==
    /\ m \in 1..Len(modules)
    /\ modules[m].state = "Loaded"
    /\ \A t \in Threads : threads[t].m # m
    /\ LET x == drop(nmodules, modules[m].c_module, fail)
       IN /\ nmodules' = x.nm
          /\ misuse' = misuse \cup x.bad
          /\ last' = [NoOp EXCEPT !.op = "drop", !.ok = x.e = "", !.e = x.e, !.m = m]
    /\ modules' = [modules EXCEPT ![m].state = "Released"]
    /\ UNCHANGED <<ivalues, owned, tensors, threads>>

(* What a native forward call touches when it is issued. *)
ForwardMisuse(f, ptr) ==
    IF ModuleLive(nmodules, ptr) THEN {} ELSE {<<"module", f, ptr>>}

(* A Tensor object: the wrapper of one native tensor handle. *)
TensorOf(c) == [c_tensor |-> c]

(* line 116: ts.iter().map(|x| x.borrow().c_tensor).collect() *)
forward_ts_args(ts) == [i \in 1..Len(ts) |-> ts[i].c_tensor]

(* lines 115-118: forward_ts up to the point where atm_forward is running *)
ForwardTsBegin(t, m, ts) ==
    /\ threads[t].pc = "idle"
    /\ m \in 1..Len(modules)
    /\ modules[m].state = "Loaded"
    /\ \E cs \in {forward_ts_args(ts)} :
          /\ threads' = [threads EXCEPT ![t] =
                           [Idle EXCEPT !.pc = "forward_ts", !.m = m,
                                        !.ptr = modules[m].c_module,
                                        !.inputs = ts, !.ts = cs]]
          /\ misuse' = misuse \cup ForwardMisuse("atm_forward", modules[m].c_module)
                              \cup {<<"tensor", "atm_forward", cs[i]>> :
                                      i \in {j \in 1..Len(cs) : ~tensors[cs[j]].live}}
    /\ UNCHANGED <<ivalues, owned, modules, nmodules, tensors, last>>

(* ForwardTsEnd releasing the module it ran on *)
ForwardTsEnd_freeing(t, fail) ==
    /\ threads[t].pc = "forward_ts"
    /\ threads' = [threads EXCEPT ![t] = Idle]
    /\ nmodules' = atm_free(nmodules, threads[t].ptr, FALSE).nm
    /\ last' = [NoOp EXCEPT !.op = "forward_ts", !.t = t, !.m = threads[t].m,
                            !.ok = ~fail, !.e = IF fail THEN "torch" ELSE "",
                            !.hs = threads[t].ts, !.inputs = threads[t].inputs,
                            !.nfail = IF fail THEN 1 ELSE 0]
    /\ UNCHANGED <<ivalues, misuse, owned, modules, tensors>>

(* ForwardTsEnd releasing the tensors it was given *)
ForwardTsEnd_consuming(t, fail) ==
    /\ threads[t].pc = "forward_ts"
    /\ threads' = [threads EXCEPT ![t] = Idle]
    /\ tensors' = [c \in Tensors |->
                     IF \E i \in 1..Len(threads[t].ts) : threads[t].ts[i] = c
                     THEN [live |-> FALSE, frees |-> tensors[c].frees + 1]
                     ELSE tensors[c]]
    /\ last' = [NoOp EXCEPT !.op = "forward_ts", !.t = t, !.m = threads[t].m,
                            !.ok = ~fail, !.e = IF fail THEN "torch" ELSE "",
                            !.hs = threads[t].ts, !.inputs = threads[t].inputs,
                            !.nfail = IF fail THEN 1 ELSE 0]
    /\ UNCHANGED <<ivalues, misuse, owned, modules, nmodules>>

(* lines 118-119: atm_forward returns, with an error or with a tensor *)
ForwardTsEnd(t, fail) ==
    /\ threads[t].pc = "forward_ts"
    /\ threads' = [threads EXCEPT ![t] = Idle]
    /\ last' = [NoOp EXCEPT !.op = "forward_ts", !.t = t, !.m = threads[t].m,
                            !.ok = ~fail, !.e = IF fail THEN "torch" ELSE "",
                            !.hs = threads[t].ts, !.inputs = threads[t].inputs,
                            !.nfail = IF fail THEN 1 ELSE 0]
    /\ UNCHANGED <<ivalues, misuse, owned, modules, nmodules, tensors>>

(* the arguments of forward_is handed over last first *)
forward_is_args_reversed(w, ts) ==
    Let(collect_to_c(w, ts), LAMBDA x :
      IF ~x.ok THEN x ELSE Ok(x.w, [i \in 1..Len(x.r) |-> x.r[Len(x.r) + 1 - i]]))

(* lines 124-127: the arguments of forward_is *)
forward_is_args(w, ts) == collect_to_c(w, ts)

(* the end of forward_is with the native error cleared after the frees *)
forward_is_result_clearing(w, ts, c_ivalue) ==
    Let(free_all(w, ts), LAMBDA freed : of_c([freed EXCEPT !.err = FALSE], c_ivalue))

(* lines 130-133: after atm_forward_ has returned c_ivalue without error;  *)
(* the frees of line 131 are outside any unsafe_torch_err!, so an error    *)
(* they leave is read by the first unsafe_torch_err! of of_c               *)
forward_is_result(w, ts, c_ivalue) ==
    Let(free_all(w, ts), LAMBDA freed : of_c(freed, c_ivalue))

AtmForward(hs, fail) == [f |-> "atm_forward_", h |-> 0, hs |-> hs, failed |-> fail]

(* lines 123-129: forward_is up to the point where atm_forward_ is running, *)
(* or to its return when an argument does not convert                      *)
ForwardIsBegin(t, m, args, faults) ==
    /\ threads[t].pc = "idle"
    /\ m \in 1..Len(modules)
    /\ modules[m].state = "Loaded"
    /\ Len(Store) + SumNodes(args) <= MaxHandles
    /\ \E w \in {World(Store, misuse, faults)} : \E x \in {forward_is_args(w, args)} :
          /\ ivalues' = x.w.iv
          /\ IF x.ok
             THEN /\ threads' = [threads EXCEPT ![t] =
                                   [Idle EXCEPT !.pc = "forward_is", !.m = m,
                                                !.ptr = modules[m].c_module,
                                                !.inputs = args, !.hs = x.r,
                                                !.log = x.w.log]]
                  /\ misuse' = x.w.bad
                                 \cup ForwardMisuse("atm_forward_", modules[m].c_module)
                  /\ last' = last
             ELSE /\ threads' = threads
                  /\ misuse' = x.w.bad
                  /\ last' = [NoOp EXCEPT !.op = "forward_is", !.t = t, !.m = m,
                                          !.e = x.e, !.args = args, !.log = x.w.log,
                                          !.nfail = Failures(x.w),
                                          !.base = Len(Store), !.top = Len(x.w.iv)]
    /\ UNCHANGED <<owned, modules, nmodules, tensors>>

(* lines 128-134: atm_forward_ returns, with an error or with a handle     *)
(* holding result                                                          *)
ForwardIsEnd(t, fail, result, faults) ==
    /\ threads[t].pc = "forward_is"
    /\ fail \/ Len(Store) + 1 + NNodes(result) <= MaxHandles
    /\ \E c_ivalue \in {Len(Store) + 1},
          iv \in {Append(Store, [val |-> result, live |-> TRUE, frees |-> 0])} :
        \E w \in {World(iv, misuse, faults)} :
        \E x \in {IF fail THEN Err(World(Store, misuse, {}), "torch")
                  ELSE forward_is_result(w, threads[t].hs, c_ivalue)} :
          /\ ivalues' = x.w.iv
          /\ misuse' = x.w.bad
          /\ last' = [NoOp EXCEPT !.op = "forward_is", !.t = t, !.m = threads[t].m,
                                  !.ok = x.ok, !.e = x.e, !.hs = threads[t].hs,
                                  !.args = threads[t].inputs,
                                  !.h = IF fail THEN 0 ELSE c_ivalue,
                                  !.v = IF x.ok THEN x.r ELSE Blank,
                                  !.log = threads[t].log \o <<AtmForward(threads[t].hs, fail)>> \o x.w.log,
                                  !.nfail = Failures(x.w) + (IF fail THEN 1 ELSE 0),
                                  !.base = Len(Store), !.top = Len(x.w.iv)]
    /\ threads' = [threads EXCEPT ![t] = Idle]
    /\ UNCHANGED <<owned, modules, nmodules, tensors>>

(* lines 141-145, tests::ivalue: of_c(v.to_c().unwrap()).unwrap() in a     *)
(* fresh process                                                           *)
RoundTrip(v, faults) ==
    /\ ivalues = <<>>
    /\ \E w \in {World(<<>>, {}, faults)} : \E c \in {to_c(w, v)} :
       \E x \in {IF c.ok THEN of_c(c.w, c.r) ELSE Err(c.w, "panic")} :
          /\ ivalues' = x.w.iv
          /\ misuse' = x.w.bad
          /\ last' = [NoOp EXCEPT !.op = "roundtrip", !.ok = x.ok, !.e = x.e, !.argv = v,
                                  !.h = c.r, !.v = IF x.ok THEN x.r ELSE Blank,
                                  !.log = x.w.log, !.nfail = Failures(x.w),
                                  !.top = Len(x.w.iv)]
    /\ UNCHANGED <<owned, modules, nmodules, tensors, threads>>

(* An upper bound of the native calls of_c makes on a handle holding n. *)
OfCCalls(n) == 4 * (1 + NNodes(n))

(* The bridge alone: conversions called directly. *)
Next ==
    \/ \E v \in Values : \E f \in Faults(2 * Nodes(v)) : ToC(v, f)
    \/ \E c \in owned : \E f \in Faults(OfCCalls(ivalues[c].val)) : OfC(c, f)

Spec == Init /\ [][Next]_vars

(* forward_is from one thread, next to direct conversions. *)
NextForward ==
    \/ Load("model.pt", FALSE)
    \/ \E args \in ArgLists : \E f \in Faults(2 * SumNodes(args)) :
          ForwardIsBegin(1, 1, args, f)
    \/ \E r \in NativeResults : \E f \in Faults(Len(threads[1].hs) + OfCCalls(r)) :
          ForwardIsEnd(1, FALSE, r, f)
    \/ ForwardIsEnd(1, TRUE, NBlank, {})
    \/ \E v \in Atoms \cup {Pair(IInt(42), IString(<<NUL>>))} : \E f \in Faults(2 * Nodes(v)) :
          ToC(v, f)
    \/ \E c \in owned : \E f \in Faults(OfCCalls(ivalues[c].val)) : OfC(c, f)

SpecForward == Init /\ [][NextForward]_vars

(* The module handle: load, the two forward calls from several threads, drop. *)
NextModule ==
    \/ \E p \in Paths, fail \in BOOLEAN : Load(p, fail)
    \/ \E m \in 1..MaxModules, fail \in BOOLEAN : Drop(m, fail)
    \/ \E t \in Threads, m \in 1..MaxModules : ForwardTsBegin(t, m, <<TensorOf(2), TensorOf(1)>>)
    \/ \E t \in Threads, fail \in BOOLEAN : ForwardTsEnd(t, fail)
    \/ \E t \in Threads, m \in 1..MaxModules : ForwardIsBegin(t, m, <<>>, {})
    \/ \E t \in Threads : ForwardIsEnd(t, FALSE, NVal(3, 42), {})
    \/ \E t \in Threads : ForwardIsEnd(t, TRUE, NBlank, {})

SpecModule == Init /\ [][NextModule]_vars

(* The round trip of the test, on every value drawn. *)
NextRT ==
    /\ ivalues = <<>>
    /\ \E v \in RTValues : \E f \in Faults(2 * Nodes(v)) : RoundTrip(v, f)

SpecRT == Init /\ [][NextRT]_vars

(* of_c on whatever the engine hands out, next to to_c of the values whose *)
(* encoding of_c reads back.                                               *)
NextOfC ==
    \/ owned = {} /\ \E n \in NativeValues : \E f \in Faults(OfCCalls(n)) : OfCNative(n, f)
    \/ \E v \in {IBool(TRUE), IBool(FALSE), Pair(IBool(TRUE), IBool(FALSE))} :
          \E f \in Faults(2 * Nodes(v)) : ToC(v, f)
    \/ \E c \in owned : \E f \in Faults(OfCCalls(ivalues[c].val)) : OfC(c, f)

SpecOfC == Init /\ [][NextOfC]_vars

(* Every operation that crosses the native boundary, on one module from    *)
(* one thread, with native failures.                                       *)
NextFail ==
    \/ Len(modules) = 0 /\ \E p \in {"model.pt", "missing.pt"}, fail \in BOOLEAN : Load(p, fail)
    \/ ForwardTsBegin(1, 1, <<TensorOf(1)>>)
    \/ \E fail \in BOOLEAN : ForwardTsEnd(1, fail)
    \/ \E args \in {<<>>, <<IInt(42)>>, <<Pair(IInt(42), IString(<<65>>))>>} :
          \E f \in Faults(2 * SumNodes(args)) : ForwardIsBegin(1, 1, args, f)
    \/ \E r \in {NVal(3, 42), NTup(<<NVal(3, 42)>>)} :
          \E f \in Faults(Len(threads[1].hs) + OfCCalls(r)) : ForwardIsEnd(1, FALSE, r, f)
    \/ ForwardIsEnd(1, TRUE, NBlank, {})
    \/ \E v \in {IInt(42), Pair(IInt(42), IString(<<65>>))} : \E f \in Faults(2 * Nodes(v)) :
          ToC(v, f)
    \/ \E c \in owned : \E f \in Faults(OfCCalls(ivalues[c].val)) : OfC(c, f)

SpecFail == Init /\ [][NextFail]_vars

----------------------------------------------------------------------------
(* Properties *)

RECURSIVE NulFree(_), AllNulFree(_)
(* no String of v holds a NUL byte *)
NulFree(v) ==
    /\ \A i \in 1..Len(v.s) : v.s[i] # NUL
    /\ AllNulFree(v.es)
AllNulFree(vs) == vs = <<>> \/ (NulFree(Head(vs)) /\ AllNulFree(Tail(vs)))

(* handles the last operation allocated, and those of them still live *)
Allocated == (last.base + 1)..last.top
Leaked == {h \in Allocated : ivalues[h].live}
CallsOf(f) == {i \in 1..Len(last.log) : last.log[i].f = f}
NoFreeFailed == \A i \in CallsOf("ati_free") : ~last.log[i].failed
Elems(hs) == {hs[i] : i \in 1..Len(hs)}

(* C1: for a value without Tensor and without NUL in a String, when no     *)
(* native call fails, of_c(to_c(v)) is Ok and equal to v.                  *)
C1_RoundTrip ==
    (last.op = "roundtrip" /\ NulFree(last.argv) /\ last.nfail = 0)
        => (last.ok /\ last.v = last.argv)

C1_Witness ==
    /\ last.op = "roundtrip" /\ last.ok /\ last.nfail = 0
    /\ last.argv = Pair(IInt(42), Pair(IString(<<65>>), IBool(FALSE)))
    /\ last.v = last.argv

(* C2: whenever of_c returns, Ok or Err, its input handle has been passed  *)
(* to ati_free exactly once.                                               *)
C2_OfCFreesInput ==
    /\ (last.op = "of_c" /\ last.e # "panic") => ivalues[last.argh].frees = 1
    /\ (last.op = "forward_is" /\ last.h # 0 /\ last.e # "panic")
          => ivalues[last.h].frees = 1

(* C3: when to_c of a Tuple returns Err, and no ati_free call failed, no   *)
(* handle it allocated is still live.                                      *)
C3_TupleFailureReleases ==
    (last.op = "to_c" /\ last.argv.k = "Tuple" /\ ~last.ok /\ NoFreeFailed)
        => Leaked = {}

(* C4: once forward_is has called atm_forward_, every argument handle has  *)
(* been passed to ati_free exactly once when forward_is ends, whether      *)
(* atm_forward_ succeeded or failed.                                       *)
C4_ArgsFreedAfterForward ==
    (last.op = "forward_is" /\ CallsOf("atm_forward_") # {})
        => \A h \in Elems(last.hs) : ivalues[h].frees = 1

(* C5: when forward_is ends because an argument did not convert, and no    *)
(* ati_free call failed, no handle made for an earlier argument is live.   *)
C5_ArgFailureReleases ==
    (last.op = "forward_is" /\ CallsOf("atm_forward_") = {} /\ NoFreeFailed)
        => Leaked = {}

ModuleMisuse == {x \in misuse : x[1] = "module"}
ValueMisuse == {x \in misuse : x[1] = "value"}

(* C6: every CModule is Loaded or Released and wraps a native module of    *)
(* its own, made by a load that succeeded; atm_free has been called on it  *)
(* never while Loaded and exactly once when Released; no atm_free or       *)
(* forward call was made on a released native module.                      *)
C6_ModuleLifecycle ==
    /\ Len(modules) = Len(nmodules)
    /\ \A m \in 1..Len(modules) :
          /\ modules[m].state \in {"Loaded", "Released"}
          /\ modules[m].c_module \in 1..Len(nmodules)
          /\ modules[m].state = "Loaded" =>
                (nmodules[modules[m].c_module].live
                   /\ nmodules[modules[m].c_module].frees = 0)
          /\ modules[m].state = "Released" => nmodules[modules[m].c_module].frees = 1
          /\ \A m2 \in 1..Len(modules) :
                m2 # m => modules[m2].c_module # modules[m].c_module
    /\ ModuleMisuse = {}

C6_Witness ==
    /\ last.op = "drop"
    /\ modules[last.m].state = "Released"
    /\ nmodules[modules[last.m].c_module].frees = 1
    /\ \E m \in 1..Len(modules) : modules[m].state = "Loaded"

C8_FailedLoad ==
    /\ (last.op = "load" /\ ~Loadable(last.path))
          => (~last.ok /\ Len(modules) = last.mods /\ Len(nmodules) = last.base)
    /\ \A m \in 1..Len(modules) : modules[m].c_module \in 1..Len(nmodules)
    /\ \A x \in ModuleMisuse : x[2] # "atm_free"

C8_Witness ==
    /\ last.op = "load" /\ last.path = "missing.pt" /\ ~last.ok
    /\ Len(modules) = 1 /\ modules[1].state = "Loaded"

(* C9: while a forward call runs on a CModule, from whatever threads, the  *)
(* CModule is Loaded, holds the pointer the call was given, and atm_free   *)
(* has not been called on its native module.                               *)
C9_ForwardKeepsModule ==
    \A t \in Threads :
        threads[t].pc # "idle" =>
            /\ modules[threads[t].m].state = "Loaded"
            /\ modules[threads[t].m].c_module = threads[t].ptr
            /\ nmodules[threads[t].ptr].live
            /\ nmodules[threads[t].ptr].frees = 0

C9_Witness ==
    /\ threads[1].pc = "forward_ts" /\ threads[2].pc = "forward_is"
    /\ threads[1].m = threads[2].m
    /\ last.op = "forward_is" /\ last.t = 2 /\ last.m = threads[1].m

(* C10: to_c of a String holding a NUL byte returns Err without any native *)
(* call: ati_string is not called and no handle is made.                   *)
C10_NulStringRefused ==
    (last.op = "to_c" /\ last.argv.k = "String" /\ ~NulFree(last.argv))
        => (~last.ok /\ last.log = <<>> /\ Allocated = {})

C10_Witness ==
    /\ last.op = "to_c" /\ last.argv = IString(<<65, NUL>>)
    /\ ~last.ok /\ last.e = "nul"

(* The variant of_c builds for each tag it handles (lines 52-79). *)
Variant ==
    (0 :> "None") @@ (1 :> "Tensor") @@ (2 :> "Double") @@ (3 :> "Int")
        @@ (4 :> "Bool") @@ (5 :> "Tuple") @@ (9 :> "String")

(* C11: of_c returns a value only for a tag of the table 0 None, 1 Tensor, *)
(* 2 Double, 3 Int, 4 Bool, 5 Tuple, 9 String, and then of that variant;   *)
(* for the tags 0 to 3 it does so whenever no native call fails; for every *)
(* other tag it returns the unhandled-tag error.                           *)
C11_TagDispatch ==
    last.op = "of_c" =>
        /\ last.ok => (last.nv.tag \in DOMAIN Variant /\ last.v.k = Variant[last.nv.tag])
        /\ (last.nfail = 0 /\ last.nv.tag \in 0..3) => last.ok
        /\ (last.nfail = 0 /\ last.nv.tag \notin DOMAIN Variant)
              => (~last.ok /\ last.e = "unhandled tag")

C11_Witness ==
    /\ last.op = "of_c" /\ last.nv.tag = 8 /\ last.nfail = 0
    /\ ~last.ok /\ last.e = "unhandled tag"

(* C12: to_c makes Bool(true) the native integer 1 and Bool(false) the    *)
(* native integer 0; of_c, when no native call fails, turns native 1 into  *)
(* Bool(true) and native 0 into Bool(false), and for a negative integer    *)
(* returns the unexpected-bool error: no panic, no Bool.                   *)
C12_BoolConversion ==
    /\ (last.op = "to_c" /\ last.argv.k = "Bool" /\ last.ok)
          => ivalues[last.h].val = NVal(4, IF last.argv.b THEN 1 ELSE 0)
    /\ (last.op = "to_c" /\ last.argv = Pair(IBool(TRUE), IBool(FALSE)) /\ last.ok)
          => ivalues[last.h].val = NTup(<<NVal(4, 1), NVal(4, 0)>>)
    /\ (last.op = "of_c" /\ last.nv.tag = 4 /\ last.nfail = 0) =>
          /\ last.nv.n = 1 => (last.ok /\ last.v = IBool(TRUE))
          /\ last.nv.n = 0 => (last.ok /\ last.v = IBool(FALSE))
          /\ last.nv.n < 0 => (~last.ok /\ last.e = "unexpected bool value")

C12_Witness ==
    /\ last.op = "of_c" /\ last.nv = NVal(4, -1) /\ last.nfail = 0
    /\ ~last.ok /\ last.e = "unexpected bool value"

(* C16: of_c on a tag-4 handle returns a Bool only when ati_to_bool        *)
(* returned 0 or 1.                                                        *)
C16_OnlyZeroOneAreBools ==
    (last.op = "of_c" /\ last.nv.tag = 4 /\ last.ok) => last.nv.n \in {0, 1}

(* C17: when no native call fails, of_c on a tag-9 handle whose bytes are  *)
(* not valid text ends in a panic, at the top level and inside a tuple,    *)
(* and returns no Err; on valid text it returns the String.                *)
C17_UndecodablePanics ==
    /\ (last.op = "of_c" /\ last.nfail = 0 /\ last.nv.tag = 9) =>
          IF ptr_to_string(last.nv.s).some
          THEN last.ok /\ last.v = IString(last.nv.s)
          ELSE ~last.ok /\ last.e = "panic"
    /\ (last.op = "of_c" /\ last.nfail = 0
           /\ last.nv = NTup(<<NVal(3, 42), NStr(<<255>>)>>))
          => (~last.ok /\ last.e = "panic")

C17_Witness ==
    /\ last.op = "of_c" /\ last.nfail = 0 /\ last.nv = NStr(<<65, 255>>)
    /\ ~last.ok /\ last.e = "panic"

(* C15: when of_c on a tuple handle returns, Ok or Err, every child handle *)
(* that ati_to_tuple handed out has been passed to ati_free exactly once.  *)
C15_TupleChildrenReleased ==
    (last.op = "of_c" /\ last.nv.tag = 5 /\ last.e # "panic")
        => \A h \in Allocated : ivalues[h].frees = 1

(* the calls of the last operation that passed handle h to ati_free *)
FreesOf(h) == {j \in CallsOf("ati_free") : last.log[j].h = h}

(* C14: in to_c of a Tuple, every handle passed to ati_tuple, whether      *)
(* ati_tuple succeeds or reports failure, is passed to ati_free exactly    *)
(* once, after the ati_tuple call; when to_c returns Ok the one handle it  *)
(* made that is still live is the tuple handle it returns.                 *)
C14_TupleChildrenReleased ==
    (last.op = "to_c" /\ last.argv.k = "Tuple") =>
        /\ \A i \in CallsOf("ati_tuple") : \A h \in Elems(last.log[i].hs) :
              /\ Cardinality(FreesOf(h)) = 1
              /\ \A j \in FreesOf(h) : j > i
              /\ ivalues[h].frees = 1
        /\ last.ok => (CallsOf("ati_tuple") # {} /\ Leaked = {last.h})

C14_Witness ==
    /\ last.op = "to_c" /\ last.argv = Pair(IInt(42), IString(<<65>>)) /\ ~last.ok
    /\ \E i \in CallsOf("ati_tuple") :
          /\ last.log[i].failed
          /\ Len(last.log[i].hs) = 2
          /\ \A h \in Elems(last.log[i].hs) : ivalues[h].frees = 1 /\ ~ivalues[h].live

(* C13: forward_ts hands the native call the handles of its inputs in     *)
(* input order, and whether the call succeeds or fails every input tensor  *)
(* is still live, has never been freed, and is the tensor the caller gave. *)
C13_ForwardTsBorrows ==
    /\ \A c \in Tensors : tensors[c].live /\ tensors[c].frees = 0
    /\ \A t \in Threads :
          threads[t].pc = "forward_ts" =>
              /\ Len(threads[t].ts) = Len(threads[t].inputs)
              /\ \A i \in 1..Len(threads[t].ts) :
                    threads[t].ts[i] = threads[t].inputs[i].c_tensor
    /\ last.op = "forward_ts" =>
          /\ Len(last.hs) = Len(last.inputs)
          /\ \A i \in 1..Len(last.hs) : last.hs[i] = last.inputs[i].c_tensor

C13_Witness ==
    /\ last.op = "forward_ts" /\ ~last.ok
    /\ last.inputs = <<TensorOf(2), TensorOf(1)>>
    /\ last.hs = <<2, 1>>
    /\ \A c \in Tensors : tensors[c].live /\ tensors[c].frees = 0

(* what a handle made by to_c for v holds *)
RECURSIVE NativeOf(_)
NativeOf(v) ==
    CASE v.k = "None" -> NVal(0, 0)
      [] v.k = "Tensor" -> NVal(1, v.n)
      [] v.k = "Double" -> NVal(2, v.n)
      [] v.k = "Int" -> NVal(3, v.n)
      [] v.k = "Bool" -> NVal(4, IF v.b THEN 1 ELSE 0)
      [] v.k = "Tuple" -> NTup([i \in 1..Len(v.es) |-> NativeOf(v.es[i])])
      [] v.k = "String" -> NStr(v.s)

ToCCalls ==
    {"ati_none", "ati_tensor", "ati_double", "ati_int", "ati_bool", "ati_string",
     "ati_tuple", "ati_free"}
OfCCallNames ==
    {"ati_tag", "ati_to_tensor", "ati_to_double", "ati_to_int", "ati_to_bool",
     "ati_to_string", "ati_tuple_length", "ati_to_tuple"}

(* C18: while atm_forward_ runs for a forward_is call, the handles it was  *)
(* given hold the arguments, one each and in input order; in every         *)
(* forward_is call atm_forward_ is called at most once, after conversion   *)
(* calls only, none of which failed, and never when an argument does not   *)
(* convert; every inspector call of of_c comes after an atm_forward_ call  *)
(* that did not fail.                                                      *)
C18_ForwardIsOrder ==
    /\ \A t \in Threads :
          threads[t].pc = "forward_is" =>
              /\ Len(threads[t].hs) = Len(threads[t].inputs)
              /\ \A i \in 1..Len(threads[t].hs) :
                    ivalues[threads[t].hs[i]].val = NativeOf(threads[t].inputs[i])
    /\ last.op = "forward_is" =>
          /\ Cardinality(CallsOf("atm_forward_")) <= 1
          /\ \A i \in CallsOf("atm_forward_") :
                /\ last.log[i].hs = last.hs
                /\ Len(last.hs) = Len(last.args)
                /\ \A j \in 1..(i - 1) :
                      last.log[j].f \in ToCCalls /\ ~last.log[j].failed
          /\ ~AllNulFree(last.args) => CallsOf("atm_forward_") = {}
          /\ \A j \in 1..Len(last.log) :
                last.log[j].f \in OfCCallNames =>
                    \E i \in CallsOf("atm_forward_") : i < j /\ ~last.log[i].failed

C18_Witness ==
    /\ last.op = "forward_is" /\ last.ok
    /\ last.args = <<IInt(42), IString(<<65>>)>>
    /\ Len(last.hs) = 2
    /\ CallsOf("atm_forward_") # {}
    /\ CallsOf("ati_tag") # {}

(* C19: whenever a native call made by to_c, of_c, load, forward_ts or     *)
(* forward_is reports failure, an ati_free among them, the operation does  *)
(* not return Ok.                                                          *)
C19_NoFailureSwallowed ==
    (last.op \in {"to_c", "of_c", "load", "forward_ts", "forward_is"} /\ last.nfail > 0)
        => ~last.ok

C19_Witness ==
    /\ last.op = "forward_is" /\ ~last.ok /\ last.e = "torch"
    /\ \E i \in CallsOf("atm_forward_") : \E j \in CallsOf("ati_free") :
          /\ ~last.log[i].failed
          /\ i < j /\ last.log[j].failed /\ last.log[j].h \in Elems(last.hs)

====
